---- MODULE Spec2Model ----
(***************************************************************************)
(* A model of pypool's Pool (src/pypool/pool.py): the idle list, the pool  *)
(* lock, the size limit, the six counters and the threads that call        *)
(* get_resource, release_resource, clear_pool, restart_pool, shut_down,    *)
(* preheat and get_status.  A thread step is one access to shared state    *)
(* (the lock, the idle list, the limit, a counter, the clock) together     *)
(* with the thread-private work around it.  A counter update              *)
(* "self.count_x += 1" is made outside the lock and is a read followed by  *)
(* a write, so it is two steps.                                            *)
(***************************************************************************)
EXTENDS Integers, Sequences, FiniteSets, TLC

\* ---------------------------------------------------------------- bounds
NThreads == 2
MaxRes == 2
MaxTime == 3
MaxLimit == 1
MaxAge == 1
MaxIdle == 1
MaxPreheat == 2
MaxOps == 3
MaxOpsSeq == 6

Threads == 1..NThreads
Res == 1..MaxRes

\* Python's None for a resource reference, and for clear_pool's argument.
None == 0
NoArg == <<>>

\* The limit shut_down passes to clear_pool.
ShutDownLimit == -1

CounterNames ==
    {"count_cleared", "count_created", "count_killed_stale",
     "count_killed_ttl", "count_overflow_discard", "count_served_from_pool"}

\* The keys of get_status's dictionary, in the order the values are read.
StatusFields ==
    <<"pool_size", "pool_size_limit", "count_created", "count_cleared",
      "count_killed_stale", "count_killed_ttl", "count_overflow_discard",
      "count_served_from_pool">>

VARIABLES
    pool,             \* self.__pool: the idle resources, oldest first
    lock,             \* self.__pool_lock: 0 when free, else the holder
    pool_size_limit,  \* self.pool_size_limit
    max_age,          \* self.max_age
    max_idle_time,    \* self.max_idle_time
    cnt,              \* the six count_* attributes
    clock,            \* what time() returns
    nextRes,          \* how many resources create_resource has returned
    truthy,           \* bool(resource) of each resource
    created,          \* resource.__dict__[CREATED], 0 when absent
    released,         \* resource.__dict__[RELEASED], 0 when absent
    destroyed,        \* how many times destroy_resource got each resource
    held,             \* the resources each caller got and has not released
    dropped,          \* resources an operation took from the pool and lost
    ops,              \* how many operations have been called
    th                \* each thread's operation, position and locals

vars == <<pool, lock, pool_size_limit, max_age, max_idle_time, cnt, clock,
          nextRes, truthy, created, released, destroyed, held, dropped, ops, th>>

config == <<max_age, max_idle_time>>

\* How many operations a run may call: one caller (g), or parallel threads.
Budget(g) == IF g THEN MaxOpsSeq ELSE MaxOps

\* ------------------------------------------------------------ primitives

\* time(): the current moment.
now == clock

NoSnapshot == [pool |-> <<>>, limit |-> 0, cnt |-> [c \in CounterNames |-> 0],
               destroyed |-> [r \in Res |-> 0], held |-> {}]

\* The pool's state as an operation finds it at its call, kept (when g) for
\* stating what the operation changed.
Snapshot(g) ==
    IF g THEN [pool |-> pool, limit |-> pool_size_limit, cnt |-> cnt,
               destroyed |-> destroyed, held |-> UNION {held[u] : u \in Threads}]
    ELSE NoSnapshot

\* A thread that is in no operation.
IdleThread ==
    [pc |-> "idle", op |-> "none", arg |-> NoArg,
     now_time |-> 0, min_fresh_time |-> 0, min_created_time |-> 0,
     kill_list |-> <<>>, resource |-> None, old_pool |-> <<>>,
     stored |-> FALSE, limit_seen |-> 0, tmp |-> 0, i |-> 0,
     ph_list |-> <<>>, ph_left |-> 0, status |-> <<>>,
     pre |-> NoSnapshot, pulled |-> <<>>, seen |-> {}]

\* A pulled resource as get_resource finds it: its identity, its two
\* timestamps and its truth value.
Seen(r) == [res |-> r, created |-> created[r], released |-> released[r],
            truthy |-> truthy[r]]

\* "if not resource": None, or an object whose truth value is false.
Falsy(r) == r = None \/ ~truthy[r]

Range(s) == {s[k] : k \in 1..Len(s)}

RECURSIVE SumNeed(_)
\* Resources the operations in progress may still create (bounds the ids).
Need(u) ==
    IF th[u].op = "get_resource" /\ th[u].pc \in {"pull", "pull_cs", "examine",
            "ttl_write", "stale_write", "served_write", "destroy_kills", "create"}
    THEN 1
    ELSE IF th[u].op = "preheat" THEN th[u].ph_left ELSE 0
SumNeed(S) ==
    IF S = {} THEN 0
    ELSE LET u == CHOOSE x \in S : TRUE IN Need(u) + SumNeed(S \ {u})

Room(n) == nextRes + SumNeed(Threads) + n <= MaxRes

\* ------------------------------------------------------------------ Init
\* __init__(pool_size_limit, max_age, max_idle_time): an empty pool, a free
\* lock, counters at their class defaults.
Init ==
    /\ pool = <<>>
    /\ lock = 0
    /\ pool_size_limit \in 0..MaxLimit
    /\ max_age \in 0..MaxAge
    /\ max_idle_time \in 0..MaxIdle
    /\ cnt = [c \in CounterNames |-> 0]
    /\ clock = 1
    /\ nextRes = 0
    /\ truthy = [r \in Res |-> TRUE]
    /\ created = [r \in Res |-> 0]
    /\ released = [r \in Res |-> 0]
    /\ destroyed = [r \in Res |-> 0]
    /\ held = [t \in Threads |-> {}]
    /\ dropped = {}
    /\ ops = 0
    /\ th = [t \in Threads |-> IdleThread]

\* Time passes.
Tick ==
    /\ clock < MaxTime
    /\ clock' = clock + 1
    /\ UNCHANGED <<pool, lock, pool_size_limit, config, cnt, nextRes, truthy,
                   created, released, destroyed, held, dropped, th, ops>>

\* -------------------------------------------------------- get_resource

\* Lines 85-92: the time snapshot and the two thresholds.
GetEntry(rec) ==
    [rec EXCEPT !.pc = "pull",
                !.now_time = now,
                !.min_fresh_time =
                    IF max_idle_time # 0 THEN now - max_idle_time ELSE 0,
                !.min_created_time =
                    IF max_age # 0 THEN now - max_age ELSE 0,
                !.kill_list = <<>>,
                !.resource = None,
                !.pulled = <<>>]

\* Lines 96-106: what the loop does with the resource it pulled.
Verdict(rec) ==
    IF Falsy(rec.resource) THEN "break"
    ELSE IF created[rec.resource] < rec.min_created_time THEN "ttl"
    ELSE IF released[rec.resource] < rec.min_fresh_time THEN "stale"
    ELSE "serve"

\* The loop of lines 93-108, run now on the idle list as it is with no other
\* thread about, ends by serving an idle resource: the call creates none.
WillServe ==
    LET verdict(r) == Verdict([GetEntry(IdleThread) EXCEPT !.resource = r])
    IN  \E k \in 1..Len(pool) :
            /\ verdict(pool[k]) = "serve"
            /\ \A j \in 1..(k - 1) : verdict(pool[j]) \in {"ttl", "stale"}

\* The call starts when a resource it may create is within MaxRes; the only
\* caller's call also when it will create none.
get_resource(t, g) ==
    /\ th[t].pc = "idle"
    /\ ops < Budget(g)
    /\ ops' = ops + 1
    /\ Room(1) \/ (g /\ WillServe)
    /\ th' = [th EXCEPT ![t] =
                GetEntry([IdleThread EXCEPT !.op = "get_resource",
                                            !.pre = Snapshot(g)])]
    /\ UNCHANGED <<pool, lock, pool_size_limit, config, cnt, clock, nextRes,
                   truthy, created, released, destroyed, held, dropped>>

\* _pull, line 154: take the lock.
PullAcquire(t) ==
    /\ th[t].pc = "pull"
    /\ lock = 0
    /\ lock' = t
    /\ th' = [th EXCEPT ![t].pc = "pull_cs"]
    /\ UNCHANGED <<pool, pool_size_limit, config, cnt, clock, nextRes, truthy,
                   created, released, destroyed, held, dropped, ops>>

\* PullPop that returns the front of the pool and leaves it in the pool.
PullPopMutant(t) ==
    /\ th[t].pc = "pull_cs"
    /\ lock = t
    /\ lock' = 0
    /\ pool' = pool
    /\ th' = [th EXCEPT ![t].pc = "examine",
                        ![t].resource = IF pool # <<>> THEN Head(pool) ELSE None,
                        ![t].pulled = IF pool # <<>> THEN Append(@, Seen(Head(pool)))
                                      ELSE @]
    /\ UNCHANGED <<pool_size_limit, config, cnt, clock, nextRes, truthy,
                   created, released, destroyed, held, dropped, ops>>

\* PullPop without the release of line 158: the thread goes on holding the
\* lock.
PullPopKeepsLock(t) ==
    /\ th[t].pc = "pull_cs"
    /\ lock = t
    /\ lock' = lock
    /\ pool' = IF pool # <<>> THEN Tail(pool) ELSE pool
    /\ th' = [th EXCEPT ![t].pc = "examine",
                        ![t].resource = IF pool # <<>> THEN Head(pool) ELSE None,
                        ![t].pulled = IF pool # <<>> THEN Append(@, Seen(Head(pool)))
                                      ELSE @]
    /\ UNCHANGED <<pool_size_limit, config, cnt, clock, nextRes, truthy,
                   created, released, destroyed, held, dropped, ops>>

\* PullPop that pops the back of the pool (pop() for pop(0)).
PullPopLast(t) ==
    /\ th[t].pc = "pull_cs"
    /\ lock = t
    /\ lock' = 0
    /\ pool' = IF pool # <<>> THEN SubSeq(pool, 1, Len(pool) - 1) ELSE pool
    /\ th' = [th EXCEPT ![t].pc = "examine",
                        ![t].resource = IF pool # <<>> THEN pool[Len(pool)] ELSE None,
                        ![t].pulled = IF pool # <<>>
                                      THEN Append(@, Seen(pool[Len(pool)]))
                                      ELSE @]
    /\ UNCHANGED <<pool_size_limit, config, cnt, clock, nextRes, truthy,
                   created, released, destroyed, held, dropped, ops>>

\* _pull, lines 156-158: pop the front of the pool (None when it is empty)
\* and release the lock.
PullPop(t) ==
    /\ th[t].pc = "pull_cs"
    /\ lock = t
    /\ lock' = 0
    /\ pool' = IF pool # <<>> THEN Tail(pool) ELSE pool
    /\ th' = [th EXCEPT ![t].pc = "examine",
                        ![t].resource = IF pool # <<>> THEN Head(pool) ELSE None,
                        ![t].pulled = IF pool # <<>> THEN Append(@, Seen(Head(pool)))
                                      ELSE @]
    /\ UNCHANGED <<pool_size_limit, config, cnt, clock, nextRes, truthy,
                   created, released, destroyed, held, dropped, ops>>

\* Lines 96-107: leave the loop on "not resource"; else choose the counter
\* to raise and read it.
Examine(t) ==
    /\ th[t].pc = "examine"
    /\ th' = [th EXCEPT ![t] =
         IF Verdict(@) = "break"
         THEN [@ EXCEPT !.pc = "destroy_kills", !.i = 1]
         ELSE IF Verdict(@) = "ttl"
         THEN [@ EXCEPT !.pc = "ttl_write", !.tmp = cnt["count_killed_ttl"]]
         ELSE IF Verdict(@) = "stale"
         THEN [@ EXCEPT !.pc = "stale_write", !.tmp = cnt["count_killed_stale"]]
         ELSE [@ EXCEPT !.pc = "served_write",
                        !.tmp = cnt["count_served_from_pool"]]]
    /\ UNCHANGED <<pool, lock, pool_size_limit, config, cnt, clock, nextRes,
                   truthy, created, released, destroyed, held, dropped, ops>>

\* Lines 101-102: count_killed_ttl += 1 (the write), kill_list.append.
KillTtl(t) ==
    /\ th[t].pc = "ttl_write"
    /\ cnt' = [cnt EXCEPT !["count_killed_ttl"] = th[t].tmp + 1]
    /\ th' = [th EXCEPT ![t].pc = "pull", ![t].tmp = 0,
                        ![t].kill_list = Append(@, th[t].resource)]
    /\ UNCHANGED <<pool, lock, pool_size_limit, config, clock, nextRes, truthy,
                   created, released, destroyed, held, dropped, ops>>

\* Lines 104-105: count_killed_stale += 1 (the write), kill_list.append.
KillStale(t) ==
    /\ th[t].pc = "stale_write"
    /\ cnt' = [cnt EXCEPT !["count_killed_stale"] = th[t].tmp + 1]
    /\ th' = [th EXCEPT ![t].pc = "pull", ![t].tmp = 0,
                        ![t].kill_list = Append(@, th[t].resource)]
    /\ UNCHANGED <<pool, lock, pool_size_limit, config, clock, nextRes, truthy,
                   created, released, destroyed, held, dropped, ops>>

\* Lines 107-108: count_served_from_pool += 1 (the write), break.
Serve(t) ==
    /\ th[t].pc = "served_write"
    /\ cnt' = [cnt EXCEPT !["count_served_from_pool"] = th[t].tmp + 1]
    /\ th' = [th EXCEPT ![t].pc = "destroy_kills", ![t].tmp = 0, ![t].i = 1]
    /\ UNCHANGED <<pool, lock, pool_size_limit, config, clock, nextRes, truthy,
                   created, released, destroyed, held, dropped, ops>>

\* destroy_resource(resource): the collaborator is called on the resource.
\* The pool keeps no reference to a resource it has destroyed, so the
\* object's attributes are forgotten with it.
destroy_resource(r) ==
    /\ destroyed' = [destroyed EXCEPT ![r] = @ + 1]
    /\ created' = [created EXCEPT ![r] = 0]
    /\ released' = [released EXCEPT ![r] = 0]
    /\ truthy' = [truthy EXCEPT ![r] = TRUE]

\* GetReturn with preheat releasing each resource as soon as it has it.
GetReturnMutant(rec) ==
    IF rec.op = "preheat"
    THEN [rec EXCEPT !.ph_list = Append(@, rec.resource),
                     !.ph_left = @ - 1,
                     !.pc = "ph_rel"]
    ELSE [rec EXCEPT !.pc = "done"]

\* Where a thread goes when its get_resource returns: to the caller, or
\* back into preheat's list comprehension.
GetReturn(rec) ==
    IF rec.op = "preheat"
    THEN [rec EXCEPT !.ph_list = Append(@, rec.resource),
                     !.ph_left = @ - 1,
                     !.pc = IF rec.ph_left > 1 THEN "ph_get" ELSE "ph_rel"]
    ELSE [rec EXCEPT !.pc = "done"]

\* Line 110 and destroy_resources: destroy the kill list, one resource per
\* step; then line 112 decides between returning and creating.
DestroyKills(t) ==
    /\ th[t].pc = "destroy_kills"
    /\ IF th[t].i <= Len(th[t].kill_list)
       THEN /\ destroy_resource(th[t].kill_list[th[t].i])
            /\ th' = [th EXCEPT ![t].i = @ + 1]
       ELSE /\ th' = [th EXCEPT ![t] =
                        IF Falsy(@.resource) THEN [@ EXCEPT !.pc = "create"]
                        ELSE GetReturn(@)]
            /\ UNCHANGED <<destroyed, truthy, created, released>>
    /\ UNCHANGED <<pool, lock, pool_size_limit, config, cnt, clock, nextRes,
                   held, dropped, ops>>

\* Create with a create_resource() that never returns.
CreateMutant(t) ==
    /\ th[t].pc = "create"
    /\ FALSE
    /\ UNCHANGED vars

\* Lines 113-116: create_resource() returns a new object and the object is
\* stamped.  The assignment overwrites the only reference to a pulled
\* resource whose truth value is false: that resource is dropped, and its
\* attributes are forgotten with it.
Create(t) ==
    /\ th[t].pc = "create"
    /\ nextRes < MaxRes
    /\ LET r == nextRes + 1
           old == th[t].resource
       IN
       /\ nextRes' = r
       /\ \E b \in BOOLEAN :
            truthy' = [x \in Res |-> IF x = r THEN b
                                     ELSE IF x = old THEN TRUE ELSE truthy[x]]
       /\ created' = [x \in Res |-> IF x = r THEN now
                                     ELSE IF x = old THEN 0 ELSE created[x]]
       /\ released' = [x \in Res |-> IF x = old THEN 0 ELSE released[x]]
       /\ dropped' = IF old # None THEN dropped \cup {old} ELSE dropped
       /\ th' = [th EXCEPT ![t].resource = r, ![t].pc = "created_read"]
    /\ UNCHANGED <<pool, lock, pool_size_limit, config, cnt, clock,
                   destroyed, held, ops>>

\* Line 117, count_created += 1: the read.
CreatedRead(t) ==
    /\ th[t].pc = "created_read"
    /\ th' = [th EXCEPT ![t].tmp = cnt["count_created"],
                        ![t].pc = "created_write"]
    /\ UNCHANGED <<pool, lock, pool_size_limit, config, cnt, clock, nextRes,
                   truthy, created, released, destroyed, held, dropped, ops>>

\* CreatedWrite without the increment.
CreatedWriteMutant(t) ==
    /\ th[t].pc = "created_write"
    /\ cnt' = [cnt EXCEPT !["count_created"] = th[t].tmp]
    /\ th' = [th EXCEPT ![t] = GetReturn([@ EXCEPT !.tmp = 0])]
    /\ UNCHANGED <<pool, lock, pool_size_limit, config, clock, nextRes, truthy,
                   created, released, destroyed, held, dropped, ops>>

\* Line 117, count_created += 1: the write; line 118 returns.
CreatedWrite(t) ==
    /\ th[t].pc = "created_write"
    /\ cnt' = [cnt EXCEPT !["count_created"] = th[t].tmp + 1]
    /\ th' = [th EXCEPT ![t] = GetReturn([@ EXCEPT !.tmp = 0])]
    /\ UNCHANGED <<pool, lock, pool_size_limit, config, clock, nextRes, truthy,
                   created, released, destroyed, held, dropped, ops>>

\* ---------------------------------------------------- release_resource

\* The caller passes a resource it holds; line 167 takes the lock.
release_resource(t, g) ==
    /\ th[t].pc = "idle"
    /\ ops < Budget(g)
    /\ ops' = ops + 1
    /\ lock = 0
    /\ lock' = t
    /\ \E r \in held[t] :
        /\ held' = [held EXCEPT ![t] = @ \ {r}]
        /\ th' = [th EXCEPT ![t] =
                    [IdleThread EXCEPT !.op = "release_resource",
                                       !.pc = "rel_cs",
                                       !.resource = r,
                                       !.pre = Snapshot(g)]]
    /\ UNCHANGED <<pool, pool_size_limit, config, cnt, clock, nextRes,
                   truthy, created, released, destroyed, dropped>>

\* HasRoom with "<=" for "<", and HasRoom with every limit that is not
\* positive taken as "no limit".
HasRoomMutant == (pool_size_limit = 0) \/ (Len(pool) <= pool_size_limit)

HasRoomNonPositive == (pool_size_limit <= 0) \/ (Len(pool) < pool_size_limit)

\* Line 169: "(not self.pool_size_limit) or len(pool) < self.pool_size_limit".

HasRoom == (pool_size_limit = 0) \/ (Len(pool) < pool_size_limit)

\* Lines 169-178: store the resource if there is room, release the lock.
\* limit_seen is the pool_size_limit that line 169 read.
ReleaseStore(t) ==
    /\ th[t].pc = "rel_cs"
    /\ lock = t
    /\ lock' = 0
    /\ IF HasRoom
       THEN /\ released' = [released EXCEPT ![th[t].resource] = now]
            /\ pool' = Append(pool, th[t].resource)
            /\ th' = [th EXCEPT ![t].stored = TRUE, ![t].pc = "rel_after",
                                ![t].limit_seen = pool_size_limit]
       ELSE /\ th' = [th EXCEPT ![t].stored = FALSE, ![t].pc = "rel_after",
                                ![t].limit_seen = pool_size_limit]
            /\ UNCHANGED <<pool, released>>
    /\ UNCHANGED <<pool_size_limit, config, cnt, clock, nextRes, truthy,
                   created, destroyed, held, dropped, ops>>

\* Where a thread goes when its release_resource returns: to the caller, or
\* back into preheat's loop.
ReleaseReturn(rec) ==
    IF rec.op = "preheat" /\ rec.ph_list # <<>>
    THEN [rec EXCEPT !.pc = "ph_rel", !.limit_seen = 0]
    ELSE [rec EXCEPT !.pc = "done"]

\* Lines 179-180: "if not stored", and count_overflow_discard += 1: the read.
ReleaseAfter(t) ==
    /\ th[t].pc = "rel_after"
    /\ th' = [th EXCEPT ![t] =
                IF ~@.stored
                THEN [@ EXCEPT !.tmp = cnt["count_overflow_discard"],
                               !.pc = "overflow_write"]
                ELSE ReleaseReturn(@)]
    /\ UNCHANGED <<pool, lock, pool_size_limit, config, cnt, clock, nextRes,
                   truthy, created, released, destroyed, held, dropped, ops>>

\* Line 180, count_overflow_discard += 1: the write.
OverflowWrite(t) ==
    /\ th[t].pc = "overflow_write"
    /\ cnt' = [cnt EXCEPT !["count_overflow_discard"] = th[t].tmp + 1]
    /\ th' = [th EXCEPT ![t].pc = "rel_destroy", ![t].tmp = 0]
    /\ UNCHANGED <<pool, lock, pool_size_limit, config, clock, nextRes, truthy,
                   created, released, destroyed, held, dropped, ops>>

\* Line 181: destroy the resource that was not stored.
ReleaseDestroy(t) ==
    /\ th[t].pc = "rel_destroy"
    /\ destroy_resource(th[t].resource)
    /\ th' = [th EXCEPT ![t] = ReleaseReturn(@)]
    /\ UNCHANGED <<pool, lock, pool_size_limit, config, cnt, clock, nextRes,
                   held, dropped, ops>>

\* ----------------------------------- clear_pool, restart_pool, shut_down

\* The call of clear_pool with argument a, made as operation name; line 50
\* takes the lock.
ClearEntry(t, g, name, a) ==
    /\ th[t].pc = "idle"
    /\ ops < Budget(g)
    /\ ops' = ops + 1
    /\ lock = 0
    /\ lock' = t
    /\ th' = [th EXCEPT ![t] =
                [IdleThread EXCEPT !.op = name, !.pc = "clr_cs", !.arg = a,
                                   !.pre = Snapshot(g)]]
    /\ UNCHANGED <<pool, pool_size_limit, config, cnt, clock, nextRes,
                   truthy, created, released, destroyed, held, dropped>>

\* clear_pool(new_pool_size_limit=None)
clear_pool(t, g) ==
    \E a \in {NoArg} \cup {<<n>> : n \in 0..MaxLimit} :
        ClearEntry(t, g, "clear_pool", a)

\* restart_pool(pool_size_limit): clear_pool(pool_size_limit)
restart_pool(t, g) ==
    \E n \in 1..MaxLimit : ClearEntry(t, g, "restart_pool", <<n>>)

\* shut_down(): clear_pool(-1)
shut_down(t, g) ==
    ClearEntry(t, g, "shut_down", <<ShutDownLimit>>)

\* ClearSwap that sets the new limit and keeps the idle list.
ClearSwapMutant(t) ==
    /\ th[t].pc = "clr_cs"
    /\ lock = t
    /\ lock' = 0
    /\ pool' = pool
    /\ pool_size_limit' =
           IF th[t].arg # NoArg THEN th[t].arg[1] ELSE pool_size_limit
    /\ th' = [th EXCEPT ![t].old_pool = <<>>, ![t].pc = "clr_read"]
    /\ UNCHANGED <<config, cnt, clock, nextRes, truthy, created, released,
                   destroyed, held, dropped, ops>>

\* Lines 52-57: swap in an empty pool, set the new limit if one was given,
\* release the lock.
ClearSwap(t) ==
    /\ th[t].pc = "clr_cs"
    /\ lock = t
    /\ lock' = 0
    /\ pool' = <<>>
    /\ pool_size_limit' =
           IF th[t].arg # NoArg THEN th[t].arg[1] ELSE pool_size_limit
    /\ th' = [th EXCEPT ![t].old_pool = pool, ![t].pc = "clr_read"]
    /\ UNCHANGED <<config, cnt, clock, nextRes, truthy, created, released,
                   destroyed, held, dropped, ops>>

\* Line 59, count_cleared += len(old_pool): the read.
ClearedRead(t) ==
    /\ th[t].pc = "clr_read"
    /\ th' = [th EXCEPT ![t].tmp = cnt["count_cleared"], ![t].pc = "clr_write"]
    /\ UNCHANGED <<pool, lock, pool_size_limit, config, cnt, clock, nextRes,
                   truthy, created, released, destroyed, held, dropped, ops>>

\* ClearedWrite that counts one call instead of the resources cleared.
ClearedWriteMutant(t) ==
    /\ th[t].pc = "clr_write"
    /\ cnt' = [cnt EXCEPT !["count_cleared"] = th[t].tmp + 1]
    /\ th' = [th EXCEPT ![t].pc = "clr_destroy", ![t].tmp = 0, ![t].i = 1]
    /\ UNCHANGED <<pool, lock, pool_size_limit, config, clock, nextRes, truthy,
                   created, released, destroyed, held, dropped, ops>>

\* Line 59, count_cleared += len(old_pool): the write.
ClearedWrite(t) ==
    /\ th[t].pc = "clr_write"
    /\ cnt' = [cnt EXCEPT !["count_cleared"] = th[t].tmp + Len(th[t].old_pool)]
    /\ th' = [th EXCEPT ![t].pc = "clr_destroy", ![t].tmp = 0, ![t].i = 1]
    /\ UNCHANGED <<pool, lock, pool_size_limit, config, clock, nextRes, truthy,
                   created, released, destroyed, held, dropped, ops>>

\* Line 60 and destroy_resources: destroy the old pool, one resource per step.
ClearDestroy(t) ==
    /\ th[t].pc = "clr_destroy"
    /\ IF th[t].i <= Len(th[t].old_pool)
       THEN /\ destroy_resource(th[t].old_pool[th[t].i])
            /\ th' = [th EXCEPT ![t].i = @ + 1]
       ELSE /\ th' = [th EXCEPT ![t].pc = "done"]
            /\ UNCHANGED <<destroyed, truthy, created, released>>
    /\ UNCHANGED <<pool, lock, pool_size_limit, config, cnt, clock, nextRes,
                   held, dropped, ops>>

\* --------------------------------------------------------------- preheat

\* preheat(count): the list comprehension's first get_resource call (or
\* nothing at all when count is 0).
preheat(t, g) ==
    /\ th[t].pc = "idle"
    /\ ops < Budget(g)
    /\ ops' = ops + 1
    /\ \E count \in 0..MaxPreheat :
        /\ Room(count)
        /\ th' = [th EXCEPT ![t] =
             LET rec == [IdleThread EXCEPT !.op = "preheat", !.ph_left = count,
                                           !.arg = <<count>>,
                                           !.pre = Snapshot(g)]
             IN IF count = 0 THEN [rec EXCEPT !.pc = "done"] ELSE GetEntry(rec)]
    /\ UNCHANGED <<pool, lock, pool_size_limit, config, cnt, clock, nextRes,
                   truthy, created, released, destroyed, held, dropped>>

\* The list comprehension's next get_resource call.
PreheatGet(t) ==
    /\ th[t].pc = "ph_get"
    /\ th' = [th EXCEPT ![t] = GetEntry(@)]
    /\ UNCHANGED <<pool, lock, pool_size_limit, config, cnt, clock, nextRes,
                   truthy, created, released, destroyed, held, dropped, ops>>

\* Line 147: release_resource on the next resource of the list; line 167
\* takes the lock.
PreheatRelease(t) ==
    /\ th[t].pc = "ph_rel"
    /\ lock = 0
    /\ lock' = t
    /\ th' = [th EXCEPT ![t].resource = Head(th[t].ph_list),
                        ![t].ph_list = Tail(@),
                        ![t].pc = "rel_cs"]
    /\ UNCHANGED <<pool, pool_size_limit, config, cnt, clock, nextRes,
                   truthy, created, released, destroyed, held, dropped, ops>>

\* ------------------------------------------------------------ get_status

get_status(t, g) ==
    /\ th[t].pc = "idle"
    /\ ops < Budget(g)
    /\ ops' = ops + 1
    /\ th' = [th EXCEPT ![t] =
                [IdleThread EXCEPT !.op = "get_status", !.pc = "status",
                                   !.pre = Snapshot(g)]]
    /\ UNCHANGED <<pool, lock, pool_size_limit, config, cnt, clock, nextRes,
                   truthy, created, released, destroyed, held, dropped>>

\* The value get_status reads for one key of its dictionary.
StatusValue(f) ==
    IF f = "pool_size" THEN Len(pool)
    ELSE IF f = "pool_size_limit" THEN pool_size_limit
    ELSE cnt[f]

\* Lines 134-143: the dictionary's values are read one after the other, with
\* no lock held.
StatusRead(t) ==
    /\ th[t].pc = "status"
    /\ LET k == Len(th[t].status) + 1 IN
       th' = [th EXCEPT ![t].status = Append(@, StatusValue(StatusFields[k])),
                        ![t].pc = IF k = Len(StatusFields) THEN "done"
                                  ELSE "status"]
    /\ UNCHANGED <<pool, lock, pool_size_limit, config, cnt, clock, nextRes,
                   truthy, created, released, destroyed, held, dropped, ops>>

\* What get_status would return if it read all its values in this state.
CurrentValues == [k \in 1..Len(StatusFields) |-> StatusValue(StatusFields[k])]

\* The values of the pool in this state are on record as values the pool
\* had during thread t's get_status call.
Observe(t) ==
    /\ th[t].pc \in {"status", "done"}
    /\ th[t].op = "get_status"
    /\ CurrentValues \notin th[t].seen
    /\ th' = [th EXCEPT ![t].seen = @ \cup {CurrentValues}]
    /\ UNCHANGED <<pool, lock, pool_size_limit, config, cnt, clock, nextRes,
                   truthy, created, released, destroyed, held, dropped, ops>>

\* No get_status call of thread t is in progress, or the values of this state
\* are on its record.
Observed(t) ==
    th[t].op = "get_status" => CurrentValues \in th[t].seen

\* ---------------------------------------------------------------- return

\* The operation returns to its caller; get_resource's caller now holds the
\* resource.
Return(t) ==
    /\ th[t].pc = "done"
    /\ held' = IF th[t].op = "get_resource"
               THEN [held EXCEPT ![t] = @ \cup {th[t].resource}] ELSE held
    /\ th' = [th EXCEPT ![t] = IdleThread]
    /\ UNCHANGED <<pool, lock, pool_size_limit, config, cnt, clock, nextRes,
                   truthy, created, released, destroyed, dropped, ops>>

\* ------------------------------------------------- collaborator failures

\* The resources of the set S are lost: nothing refers to them any more, and
\* their attributes are forgotten with them.
Forget(f, S, v) == [x \in Res |-> IF x \in S THEN v ELSE f[x]]

\* CreateRaises that has counted the resource before the creation failed.
CreateRaisesMutant(t) ==
    /\ th[t].pc = "create"
    /\ th[t].op = "get_resource"
    /\ LET lost == {th[t].resource} \ {None} IN
       /\ dropped' = dropped \cup lost
       /\ truthy' = Forget(truthy, lost, TRUE)
       /\ created' = Forget(created, lost, 0)
       /\ released' = Forget(released, lost, 0)
    /\ cnt' = [cnt EXCEPT !["count_created"] = @ + 1]
    /\ th' = [th EXCEPT ![t].pc = "create_raised", ![t].resource = None]
    /\ UNCHANGED <<pool, lock, pool_size_limit, config, clock, nextRes,
                   destroyed, held, ops>>

\* Line 113: create_resource() raises.  The exception leaves get_resource
\* (the kill list was destroyed on line 110, the counters of the loop are
\* written); a pulled resource with a false truth value that the call held
\* is lost with the call's frame.
CreateRaises(t) ==
    /\ th[t].pc = "create"
    /\ th[t].op = "get_resource"
    /\ LET lost == {th[t].resource} \ {None} IN
       /\ dropped' = dropped \cup lost
       /\ truthy' = Forget(truthy, lost, TRUE)
       /\ created' = Forget(created, lost, 0)
       /\ released' = Forget(released, lost, 0)
    /\ th' = [th EXCEPT ![t].pc = "create_raised", ![t].resource = None]
    /\ UNCHANGED <<pool, lock, pool_size_limit, config, cnt, clock, nextRes,
                   destroyed, held, ops>>

\* Line 110, destroy_resources (line 68): destroy_resource raises on a
\* resource of the kill list.  The exception leaves get_resource: the rest
\* of the kill list and the resource the loop chose to serve are lost.
DestroyKillsRaises(t) ==
    /\ th[t].pc = "destroy_kills"
    /\ th[t].op = "get_resource"
    /\ th[t].i <= Len(th[t].kill_list)
    /\ LET r == th[t].kill_list[th[t].i]
           lost == ({th[t].kill_list[k] : k \in (th[t].i + 1)..Len(th[t].kill_list)}
                    \cup {th[t].resource}) \ {None}
       IN
       /\ destroyed' = [destroyed EXCEPT ![r] = @ + 1]
       /\ dropped' = dropped \cup lost
       /\ truthy' = Forget(truthy, lost \cup {r}, TRUE)
       /\ created' = Forget(created, lost \cup {r}, 0)
       /\ released' = Forget(released, lost \cup {r}, 0)
    /\ th' = [th EXCEPT ![t].pc = "destroy_raised", ![t].resource = None]
    /\ UNCHANGED <<pool, lock, pool_size_limit, config, cnt, clock, nextRes,
                   held, ops>>

\* Line 60, destroy_resources (line 68): destroy_resource raises on a
\* resource of the old pool.  The exception leaves clear_pool: the rest of
\* the old pool is lost.
ClearDestroyRaises(t) ==
    /\ th[t].pc = "clr_destroy"
    /\ th[t].i <= Len(th[t].old_pool)
    /\ LET r == th[t].old_pool[th[t].i]
           lost == {th[t].old_pool[k] : k \in (th[t].i + 1)..Len(th[t].old_pool)}
       IN
       /\ destroyed' = [destroyed EXCEPT ![r] = @ + 1]
       /\ dropped' = dropped \cup lost
       /\ truthy' = Forget(truthy, lost \cup {r}, TRUE)
       /\ created' = Forget(created, lost \cup {r}, 0)
       /\ released' = Forget(released, lost \cup {r}, 0)
    /\ th' = [th EXCEPT ![t].pc = "destroy_raised"]
    /\ UNCHANGED <<pool, lock, pool_size_limit, config, cnt, clock, nextRes,
                   held, ops>>

\* Line 181: destroy_resource raises on the resource that was not stored.
ReleaseDestroyRaises(t) ==
    /\ th[t].pc = "rel_destroy"
    /\ th[t].op = "release_resource"
    /\ destroy_resource(th[t].resource)
    /\ th' = [th EXCEPT ![t].pc = "destroy_raised"]
    /\ UNCHANGED <<pool, lock, pool_size_limit, config, cnt, clock, nextRes,
                   held, dropped, ops>>

\* The exception reaches the caller.
Raise(t) ==
    /\ th[t].pc \in {"create_raised", "destroy_raised"}
    /\ th' = [th EXCEPT ![t] = IdleThread]
    /\ UNCHANGED <<pool, lock, pool_size_limit, config, cnt, clock, nextRes,
                   truthy, created, released, destroyed, held, dropped, ops>>

FailStep(t) ==
    \/ CreateRaises(t) \/ DestroyKillsRaises(t) \/ ClearDestroyRaises(t)
    \/ ReleaseDestroyRaises(t) \/ Raise(t)

\* --------------------------------------------------------- specifications

\* The steps of get_resource and of release_resource, and a call's return.
GetStep(t, g) ==
    \/ get_resource(t, g) \/ PullAcquire(t) \/ PullPop(t) \/ Examine(t)
    \/ KillTtl(t) \/ KillStale(t) \/ Serve(t) \/ DestroyKills(t)
    \/ Create(t) \/ CreatedRead(t) \/ CreatedWrite(t)

ReleaseStep(t, g) ==
    \/ release_resource(t, g) \/ ReleaseStore(t)
    \/ ReleaseAfter(t) \/ OverflowWrite(t) \/ ReleaseDestroy(t)

\* The steps of clear_pool (restart_pool, shut_down) and of preheat.
ClearStep(t, g) ==
    \/ clear_pool(t, g) \/ restart_pool(t, g) \/ shut_down(t, g)
    \/ ClearSwap(t) \/ ClearedRead(t) \/ ClearedWrite(t) \/ ClearDestroy(t)

PreheatStep(t, g) ==
    preheat(t, g) \/ PreheatGet(t) \/ PreheatRelease(t)

StatusStep(t, g) == get_status(t, g) \/ StatusRead(t)

Step(t, g) ==
    \/ GetStep(t, g) \/ ReleaseStep(t, g) \/ ClearStep(t, g)
    \/ PreheatStep(t, g) \/ Return(t)

\* Threads run in parallel: any thread may take the next step.
Next ==
    \/ Tick
    \/ \E t \in Threads : Step(t, FALSE)

\* The parallel runs start from a pool with the limit MaxLimit and one of the
\* two eviction thresholds set; clear_pool, restart_pool and shut_down reach
\* the other limits.
InitPar ==
    /\ Init
    /\ pool_size_limit = MaxLimit
    /\ (max_age = 0) # (max_idle_time = 0)

Spec == InitPar /\ [][Next]_vars

\* One caller: the operations run one at a time, each to its end.
Caller == CHOOSE t \in Threads : TRUE

NextSeq == Tick \/ Step(Caller, TRUE) \/ StatusStep(Caller, TRUE)

SpecSeq == Init /\ [][NextSeq]_vars

\* One caller that calls get_resource and release_resource only.
NextGetRelease ==
    Tick \/ GetStep(Caller, TRUE) \/ ReleaseStep(Caller, TRUE) \/ Return(Caller)

SpecGetRelease == Init /\ [][NextGetRelease]_vars

\* One caller of get_resource, release_resource and clear_pool (restart_pool,
\* shut_down) whose create_resource and destroy_resource may raise.
NextFail ==
    \/ Tick
    \/ GetStep(Caller, TRUE) \/ ReleaseStep(Caller, TRUE)
    \/ ClearStep(Caller, TRUE) \/ Return(Caller)
    \/ FailStep(Caller)

SpecFail == Init /\ [][NextFail]_vars

\* The caller calls get_status while the other threads call get_resource,
\* release_resource and clear_pool (restart_pool, shut_down).  During a
\* get_status call the pool's values are put on record in every state, before
\* another thread's step can change them.
NextStatus ==
    \/ Tick
    \/ StatusStep(Caller, FALSE) \/ Return(Caller) \/ Observe(Caller)
    \/ /\ Observed(Caller)
       /\ \E t \in Threads \ {Caller} :
            \/ GetStep(t, FALSE) \/ ReleaseStep(t, FALSE)
            \/ ClearStep(t, FALSE) \/ Return(t)

SpecStatus == InitPar /\ [][NextStatus]_vars

\* A step by which the call thread t is in goes on: every step of an
\* operation but the call itself.
Progress(t) ==
    \/ PullAcquire(t) \/ PullPop(t) \/ Examine(t)
    \/ KillTtl(t) \/ KillStale(t) \/ Serve(t) \/ DestroyKills(t)
    \/ Create(t) \/ CreatedRead(t) \/ CreatedWrite(t)
    \/ ReleaseStore(t) \/ ReleaseAfter(t) \/ OverflowWrite(t)
    \/ ReleaseDestroy(t)
    \/ ClearSwap(t) \/ ClearedRead(t) \/ ClearedWrite(t) \/ ClearDestroy(t)
    \/ Return(t)

\* Parallel threads that call get_resource, release_resource and clear_pool
\* (restart_pool, shut_down), with collaborators that return.  The scheduler
\* is fair: a thread whose call can go on does go on.  Nothing obliges a
\* thread to make a call.
NextLive ==
    \/ Tick
    \/ \E t \in Threads :
        \/ GetStep(t, FALSE) \/ ReleaseStep(t, FALSE)
        \/ ClearStep(t, FALSE) \/ Return(t)

SpecLive ==
    /\ InitPar
    /\ [][NextLive]_vars
    /\ \A t \in Threads : WF_vars(Progress(t))

\* Parallel threads that call get_resource, release_resource and clear_pool
\* (restart_pool, shut_down) with collaborators that may raise.
NextFailPar ==
    \/ Tick
    \/ \E t \in Threads :
        \/ GetStep(t, FALSE) \/ ReleaseStep(t, FALSE)
        \/ ClearStep(t, FALSE) \/ Return(t)
        \/ FailStep(t)

SpecFailPar == InitPar /\ [][NextFailPar]_vars

\* ----------------------------------------------- one caller: the claims

\* The caller's operation op has run to its end and is about to return.
Finished(op) == th[Caller].pc = "done" /\ th[Caller].op = op

\* C3: a release_resource call made when the idle list holds exactly
\* pool_size_limit resources (limit > 0) leaves the idle list as it was,
\* raises count_overflow_discard by exactly 1 and has destroy_resource called
\* exactly once on the released resource.
C3_FullPoolDiscards ==
    LET me == th[Caller] IN
    (Finished("release_resource") /\ me.pre.limit > 0
        /\ Len(me.pre.pool) = me.pre.limit)
    => /\ pool = me.pre.pool
       /\ cnt["count_overflow_discard"] = me.pre.cnt["count_overflow_discard"] + 1
       /\ destroyed[me.resource] = me.pre.destroyed[me.resource] + 1
       /\ me.resource \notin Range(pool)

\* C3's case: with the limit at its largest, every acquired resource has been
\* released; the first ones filled the pool and this last one was discarded.
C3_Witness ==
    LET me == th[Caller] IN
    /\ Finished("release_resource")
    /\ me.pre.limit = MaxLimit
    /\ Len(me.pre.pool) = me.pre.limit
    /\ cnt["count_created"] = MaxLimit + 1
    /\ cnt["count_overflow_discard"] = 1
    /\ destroyed[me.resource] = 1
    /\ held[Caller] = {}

\* The first resource a get_resource call pulled was, at the call's time
\* snapshot, within max_idle_time of its release and within max_age of its
\* creation (a threshold of 0 is disabled).
FrontIsFresh(rec) ==
    /\ rec.pulled # <<>>
    /\ max_idle_time # 0 => rec.now_time - rec.pulled[1].released < max_idle_time
    /\ max_age # 0 => rec.now_time - rec.pulled[1].created < max_age

\* C4: when the resource at the front of the idle list was released less than
\* max_idle_time ago and created less than max_age ago, get_resource returns
\* that resource, leaves count_created unchanged and raises
\* count_served_from_pool by exactly 1.
C4_FreshFrontIsServed ==
    LET me == th[Caller] IN
    (Finished("get_resource") /\ me.pre.pool # <<>> /\ FrontIsFresh(me))
    => /\ me.resource = Head(me.pre.pool)
       /\ cnt["count_created"] = me.pre.cnt["count_created"]
       /\ cnt["count_served_from_pool"] = me.pre.cnt["count_served_from_pool"] + 1

\* The pulled resources of a get_resource call that were too old at the
\* call's time snapshot, and those that were within max_age but had idled too
\* long (positions in the order they were pulled).
TooOld(rec) ==
    {k \in 1..Len(rec.pulled) :
        max_age # 0 /\ rec.pulled[k].created < rec.now_time - max_age}

Stale(rec) ==
    {k \in 1..Len(rec.pulled) :
        /\ k \notin TooOld(rec)
        /\ max_idle_time # 0
        /\ rec.pulled[k].released < rec.now_time - max_idle_time}

\* C5: with max_age > 0, get_resource does not return a resource created
\* before t0 - max_age; each such resource it pulls raises count_killed_ttl
\* by 1 and is passed to destroy_resource.
C5_TooOldIsKilled ==
    LET me == th[Caller] IN
    (Finished("get_resource") /\ max_age > 0)
    => /\ created[me.resource] >= me.now_time - max_age
       /\ \A k \in TooOld(me) :
            /\ me.pulled[k].res # me.resource
            /\ destroyed[me.pulled[k].res] =
                   me.pre.destroyed[me.pulled[k].res] + 1
       /\ cnt["count_killed_ttl"] =
              me.pre.cnt["count_killed_ttl"] + Cardinality(TooOld(me))

\* C6: with max_idle_time > 0, get_resource does not return a resource that
\* is within max_age and was released before t0 - max_idle_time; each such
\* resource it pulls raises count_killed_stale by 1 and is destroyed, and when
\* none of the pulled resources was fit the call creates a replacement
\* (count_created + 1) and leaves count_served_from_pool as it was.
C6_StaleIsKilled ==
    LET me == th[Caller] IN
    (Finished("get_resource") /\ max_idle_time > 0)
    => /\ \A k \in Stale(me) :
            /\ me.pulled[k].res # me.resource
            /\ destroyed[me.pulled[k].res] =
                   me.pre.destroyed[me.pulled[k].res] + 1
       /\ cnt["count_killed_stale"] =
              me.pre.cnt["count_killed_stale"] + Cardinality(Stale(me))
       /\ (Stale(me) # {} /\ Stale(me) \cup TooOld(me) = 1..Len(me.pulled))
          => /\ cnt["count_created"] = me.pre.cnt["count_created"] + 1
             /\ cnt["count_served_from_pool"] =
                    me.pre.cnt["count_served_from_pool"]

\* C8: clear_pool(n), and so restart_pool(n) and shut_down(), has
\* destroy_resource called exactly once on each resource that was idle at its
\* swap and on no other resource, raises count_cleared by exactly their
\* number, leaves the idle list empty, and the pool_size_limit that
\* get_status reads afterwards is n; a get_status call reports the limit as
\* the last clear_pool left it.
C8_ClearDestroysTheIdle ==
    LET me == th[Caller] IN
    /\ (me.pc = "done" /\ me.op \in {"clear_pool", "restart_pool", "shut_down"})
       => /\ me.old_pool = me.pre.pool
          /\ Cardinality(Range(me.old_pool)) = Len(me.old_pool)
          /\ \A r \in Res :
                destroyed[r] = me.pre.destroyed[r]
                               + (IF r \in Range(me.old_pool) THEN 1 ELSE 0)
          /\ cnt["count_cleared"] =
                 me.pre.cnt["count_cleared"] + Len(me.old_pool)
          /\ pool = <<>>
          /\ me.arg # NoArg => StatusValue("pool_size_limit") = me.arg[1]
          /\ me.arg = NoArg => StatusValue("pool_size_limit") = me.pre.limit
    /\ Finished("get_status") => me.status[2] = me.pre.limit

\* C8's case: a clear_pool call given a new limit found every resource idle
\* and has destroyed them all.
C8_Witness ==
    LET me == th[Caller] IN
    /\ Finished("clear_pool")
    /\ me.arg # NoArg
    /\ me.arg[1] # me.pre.limit
    /\ Len(me.old_pool) = MaxRes
    /\ \A r \in Res : destroyed[r] = 1
    /\ cnt["count_cleared"] = MaxRes

\* No operation is in progress, and no age or idle eviction has happened.
Quiescent == \A t \in Threads : th[t].pc = "idle"

NoEviction == cnt["count_killed_ttl"] = 0 /\ cnt["count_killed_stale"] = 0

Held == UNION {held[t] : t \in Threads}

\* C9: after any sequence of get_resource and release_resource calls without
\* an age or idle eviction, count_created - count_served_from_pool is the
\* number of resources held by callers plus the number of idle resources.
C9_CreatedMinusServed ==
    (Quiescent /\ NoEviction)
    => cnt["count_created"] - cnt["count_served_from_pool"]
         = Cardinality(Held) + Len(pool)

\* C9 as the code has it: after any sequence of get_resource and
\* release_resource calls without an age or idle eviction, count_created is
\* the number of resources held, plus the idle ones, plus
\* count_overflow_discard, plus the resources get_resource pulled and dropped
\* for their false truth value; count_served_from_pool does not enter.
C9_CreatedAccounted ==
    (Quiescent /\ NoEviction)
    => cnt["count_created"]
         = Cardinality(Held) + Len(pool) + cnt["count_overflow_discard"]
           + Cardinality(dropped)

\* C9's case: calls that served a resource from the pool, and a release that
\* discarded one on overflow.
C9_Witness ==
    /\ Quiescent /\ NoEviction
    /\ cnt["count_served_from_pool"] > 0
    /\ cnt["count_overflow_discard"] > 0
    /\ cnt["count_created"] = MaxRes

\* C10: release_resource on a pool whose pool_size_limit is 0 or negative
\* does not store the resource: the idle list is unchanged,
\* count_overflow_discard is raised by one and the resource is destroyed.
C10_NonPositiveLimitDiscards ==
    LET me == th[Caller] IN
    (Finished("release_resource") /\ me.pre.limit <= 0)
    => /\ pool = me.pre.pool
       /\ cnt["count_overflow_discard"] = me.pre.cnt["count_overflow_discard"] + 1
       /\ destroyed[me.resource] = me.pre.destroyed[me.resource] + 1

\* C10 as the code has it: with a negative pool_size_limit (the -1 of
\* shut_down) release_resource leaves the idle list unchanged, raises
\* count_overflow_discard by one and destroys the resource; with limit 0 it
\* appends the resource to the idle list, whatever its length, leaves
\* count_overflow_discard alone and does not destroy the resource.
C10_NegativeDiscardsZeroStores ==
    LET me == th[Caller] IN
    /\ (Finished("release_resource") /\ me.pre.limit < 0)
       => /\ pool = me.pre.pool
          /\ cnt["count_overflow_discard"] =
                 me.pre.cnt["count_overflow_discard"] + 1
          /\ destroyed[me.resource] = me.pre.destroyed[me.resource] + 1
    /\ (Finished("release_resource") /\ me.pre.limit = 0)
       => /\ pool = Append(me.pre.pool, me.resource)
          /\ cnt["count_overflow_discard"] = me.pre.cnt["count_overflow_discard"]
          /\ destroyed[me.resource] = me.pre.destroyed[me.resource]

\* C10's case: a release on a pool with limit 0 has stored the resource
\* behind the idle ones, more than any positive limit allows.
C10_Witness ==
    LET me == th[Caller] IN
    /\ Finished("release_resource")
    /\ me.pre.limit = 0
    /\ Len(me.pre.pool) = MaxLimit
    /\ pool = Append(me.pre.pool, me.resource)
    /\ destroyed[me.resource] = 0

\* ------------------------------------------- parallel threads: the claims

\* Thread t's get_resource has its result and is about to return it.
Returning(t) == th[t].pc = "done" /\ th[t].op = "get_resource"

C2_IdleWithinLimit ==
    pool_size_limit > 0 => Len(pool) <= pool_size_limit

\* C2's case: the idle list is exactly at a positive limit and a
\* release_resource call has found it so and kept its resource out.
C2_Witness ==
    /\ pool_size_limit > 0
    /\ Len(pool) = pool_size_limit
    /\ \E t \in Threads :
        /\ th[t].pc = "overflow_write"
        /\ th[t].limit_seen = pool_size_limit

\* C7: from shut_down's swap on, while the limit is the one shut_down set,
\* the idle list is empty in every state; a release_resource that finds that
\* limit stores nothing, raises count_overflow_discard by one and destroys
\* its resource.
C7_ShutDownDiscardsAndCounts ==
    [][ /\ pool_size_limit' = ShutDownLimit => pool' = <<>>
        /\ \A t \in Threads :
            /\ (pool_size_limit = ShutDownLimit /\ ReleaseStore(t))
               => ~th'[t].stored
            /\ (th[t].limit_seen = ShutDownLimit /\ OverflowWrite(t))
               => cnt'["count_overflow_discard"]
                    = cnt["count_overflow_discard"] + 1
            /\ (th[t].limit_seen = ShutDownLimit /\ ReleaseDestroy(t))
               => destroyed'[th[t].resource] = destroyed[th[t].resource] + 1
      ]_vars

\* Thread t is inside a release_resource call.
Releasing(t) ==
    th[t].pc \in {"rel_cs", "rel_after", "overflow_write", "rel_destroy"}

\* C12: preheat(count) makes count get_resource calls and only then count
\* release_resource calls, and it raises count_created by exactly count,
\* whatever is idle at the call.
C12_PreheatCreatesCount ==
    LET me == th[Caller] IN
    /\ (me.op = "preheat" /\ (Releasing(Caller) \/ me.pc = "ph_rel"))
       => me.ph_left = 0
    /\ Finished("preheat")
       => cnt["count_created"] = me.pre.cnt["count_created"] + me.arg[1]

\* C12 as the code has it: preheat(count) makes count get_resource calls and
\* only then releases the count resources it got; each of the calls serves an
\* idle resource or creates one, so count_created + count_served_from_pool
\* is raised by exactly count, and count_created by count less the idle
\* resources served.
C12_PreheatGetsCount ==
    LET me == th[Caller] IN
    /\ (me.op = "preheat" /\ (Releasing(Caller) \/ me.pc = "ph_rel"))
       => me.ph_left = 0
    /\ (me.op = "preheat" /\ me.pc # "done" /\ me.ph_left > 0)
       => /\ Len(me.ph_list) + me.ph_left = me.arg[1]
          /\ cnt["count_overflow_discard"] = me.pre.cnt["count_overflow_discard"]
    /\ Finished("preheat")
       => /\ cnt["count_created"] + cnt["count_served_from_pool"]
               = me.pre.cnt["count_created"]
                 + me.pre.cnt["count_served_from_pool"] + me.arg[1]
          /\ me.ph_list = <<>> /\ me.ph_left = 0
          /\ held[Caller] = me.pre.held

\* C12's case: a preheat call on a pool with a fit idle resource has served
\* that resource instead of creating one, and has released it again.
C12_Witness ==
    LET me == th[Caller] IN
    /\ Finished("preheat")
    /\ me.arg[1] > 0
    /\ me.pre.pool # <<>>
    /\ cnt["count_served_from_pool"] = me.pre.cnt["count_served_from_pool"] + 1
    /\ cnt["count_created"] = me.pre.cnt["count_created"]
    /\ pool = me.pre.pool

\* --------------------------------- one caller, failing collaborators: claims

\* The caller's get_resource has ended by create_resource's exception.
CreateFailed == th[Caller].pc = "create_raised"

\* C11: when create_resource fails inside get_resource, the pool after the
\* call is the pool before it: the idle list and the six counters are
\* unchanged, whatever was idle at the call.
C11_CreateFailureChangesNothing ==
    LET me == th[Caller] IN
    CreateFailed => pool = me.pre.pool /\ cnt = me.pre.cnt

\* The resources a get_resource call pulled and put on its kill list: the
\* pulled ones with a true truth value that it did not serve.
Killed(rec, S) == {k \in S : rec.pulled[k].truthy}

\* C11 as the code has it: when create_resource fails inside get_resource,
\* count_created, count_served_from_pool, count_cleared and
\* count_overflow_discard are unchanged and nothing is added to the idle
\* list, but the call has taken from the idle list every resource it pulled:
\* those past max_age or max_idle_time are counted in count_killed_ttl or
\* count_killed_stale and destroyed once, and a pulled resource with a false
\* truth value is dropped.
C11_CreateFailureKeepsEvictions ==
    LET me == th[Caller]
        n == Len(me.pulled)
    IN
    CreateFailed
    => /\ \A c \in {"count_created", "count_served_from_pool", "count_cleared",
                    "count_overflow_discard"} : cnt[c] = me.pre.cnt[c]
       /\ n <= Len(me.pre.pool)
       /\ pool = SubSeq(me.pre.pool, n + 1, Len(me.pre.pool))
       /\ \A k \in 1..n : me.pulled[k].res = me.pre.pool[k]
       /\ cnt["count_killed_ttl"] =
              me.pre.cnt["count_killed_ttl"] + Cardinality(Killed(me, TooOld(me)))
       /\ cnt["count_killed_stale"] =
              me.pre.cnt["count_killed_stale"] + Cardinality(Killed(me, Stale(me)))
       /\ \A k \in 1..n :
            IF me.pulled[k].truthy
            THEN /\ k \in TooOld(me) \cup Stale(me)
                 /\ destroyed[me.pulled[k].res] =
                        me.pre.destroyed[me.pulled[k].res] + 1
            ELSE /\ k = n
                 /\ me.pulled[k].res \in dropped
                 /\ destroyed[me.pulled[k].res] = me.pre.destroyed[me.pulled[k].res]
       /\ held[Caller] = me.pre.held

\* C11's case: create_resource failed after the call had pulled an idle
\* resource past max_age or max_idle_time and destroyed it.
C11_Witness ==
    LET me == th[Caller] IN
    /\ CreateFailed
    /\ me.kill_list # <<>>
    /\ pool = <<>>
    /\ cnt["count_killed_ttl"] + cnt["count_killed_stale"] = 1

\* ------------------------------------------------ fair threads: the claims

\* C13: no call waits for pool capacity.  Under fair scheduling every
\* get_resource call that has started comes to return a resource, whether or
\* not anything is ever released, and every release_resource call that has
\* started comes to its end, whether or not anything is ever acquired.
C13_CallsComeToReturn ==
    \A t \in Threads :
        /\ (th[t].op = "get_resource")
           ~> (Returning(t) /\ th[t].resource # None)
        /\ (th[t].op = "release_resource")
           ~> (th[t].op = "release_resource" /\ th[t].pc = "done")

\* C13's case: a get_resource call found the pool empty while the other
\* threads hold what they got, and returns a resource it created; no call
\* is left in progress.
C13_Witness ==
    \E t \in Threads :
        /\ Returning(t)
        /\ th[t].pulled = <<>>
        /\ pool = <<>>
        /\ \A u \in Threads \ {t} : held[u] # {} /\ th[u].pc = "idle"

\* ----------------------------------- get_status beside other threads: claims

\* C14: the result of a get_status call, other threads running get_resource,
\* release_resource and clear_pool meanwhile, is the pool's idle size, limit
\* and six counters as they all were in one state during the call.
C14_StatusIsOneInstant ==
    LET me == th[Caller] IN
    Finished("get_status") => me.status \in me.seen \cup {CurrentValues}

\* C15: no step of any operation, under any interleaving of threads, makes
\* one of the six counters smaller than it was.
C15_CountersNeverDecrease ==
    [][\A c \in CounterNames : cnt'[c] >= cnt[c]]_vars

\* C17: every step that changes the idle sequence, pool_size_limit or one of
\* the six counters is made while the pool lock is held, and so is every step
\* that reads a counter for its increment.
C17_SharedStateUnderLock ==
    [][(pool' # pool \/ pool_size_limit' # pool_size_limit \/ cnt' # cnt)
         => lock \in Threads]_vars

\* A thread is in a call of create_resource or destroy_resource.
InCollaborator(t) ==
    th[t].pc \in {"create", "destroy_kills", "rel_destroy", "clr_destroy"}

\* A thread's operation exits: it returns, or an error raised by a
\* collaborator leaves it.
Exiting(t) == th[t].pc \in {"done", "create_raised", "destroy_raised"}

\* C16: no thread holds the pool lock while it is in create_resource or
\* destroy_resource, nor when its operation exits, by a return or by an error
\* a collaborator raised.
C16_NoLockInCollaborator ==
    \A t \in Threads : (InCollaborator(t) \/ Exiting(t)) => lock # t

\* C16's case: create_resource has raised out of a thread's get_resource,
\* which took and released the lock for its pull, and the other thread holds
\* the lock meanwhile.
C16_Witness ==
    \E t \in Threads :
        /\ th[t].pc = "create_raised"
        /\ th[t].op = "get_resource"
        /\ lock \in Threads \ {t}

\* The resources a get_resource call evicted, by the two kill counters.
KilledInCall(rec) ==
    (cnt["count_killed_ttl"] - rec.pre.cnt["count_killed_ttl"])
    + (cnt["count_killed_stale"] - rec.pre.cnt["count_killed_stale"])

\* C18: the idle list is first in, first out.  A release that stores puts its
\* resource at the back.  A get_resource call takes from the front: what it
\* pulled is a front part of the idle list in the list's order, the rest
\* stays in order, an idle resource it returns is the last one it pulled, so
\* none stored before it is still idle, and with no eviction in the call it is
\* the very front.
C18_IdleIsFifo ==
    LET me == th[Caller]
        n == Len(me.pulled)
    IN  /\ (Finished("release_resource") /\ me.stored)
            => pool = Append(me.pre.pool, me.resource)
        /\ Finished("get_resource")
            => /\ n <= Len(me.pre.pool)
               /\ \A k \in 1..n : me.pulled[k].res = me.pre.pool[k]
               /\ pool = SubSeq(me.pre.pool, n + 1, Len(me.pre.pool))
               /\ me.resource \in Range(me.pre.pool)
                    => /\ me.resource = me.pre.pool[n]
                       /\ \A k \in 1..(n - 1) : me.pre.pool[k] \notin Range(pool)
                       /\ KilledInCall(me) = 0 => me.resource = Head(me.pre.pool)

\* C18's case: two resources were stored one after the other, and a
\* get_resource call without eviction has returned the one stored first and
\* left the other idle.
C18_Witness ==
    LET me == th[Caller] IN
    /\ Finished("get_resource")
    /\ Len(me.pre.pool) = 2
    /\ KilledInCall(me) = 0
    /\ me.resource = Head(me.pre.pool)
    /\ pool = Tail(me.pre.pool)
    /\ released[me.resource] < released[pool[1]]

\* C19: in every quiescent state of a run of one caller, with collaborators
\* that return, each resource ever created is exactly one of held by the
\* caller, idle (once), or destroyed exactly once, and count_created is the
\* sum of the held, the idle and the four counters of destroyed resources;
\* resources whose truth value is false included.
C19_NothingLostOrTwiceDestroyed ==
    Quiescent =>
        /\ \A r \in 1..nextRes :
              LET isHeld == r \in Held
                  idle == Cardinality({k \in 1..Len(pool) : pool[k] = r})
              IN  \/ isHeld /\ idle = 0 /\ destroyed[r] = 0
                  \/ ~isHeld /\ idle = 1 /\ destroyed[r] = 0
                  \/ ~isHeld /\ idle = 0 /\ destroyed[r] = 1
        /\ cnt["count_created"]
             = Cardinality(Held) + Len(pool) + cnt["count_cleared"]
               + cnt["count_killed_stale"] + cnt["count_killed_ttl"]
               + cnt["count_overflow_discard"]

\* destroy_resource has raised out of the caller's get_resource or clear_pool
\* (restart_pool, shut_down).
DestroyFailed ==
    th[Caller].pc = "destroy_raised" /\ th[Caller].op # "release_resource"

\* The resources the caller's call removed from the idle list, and those of
\* them that the call passed to destroy_resource.
Removed(rec) == Range(rec.pre.pool) \ Range(pool)

Passed(rec) == {r \in Removed(rec) : destroyed[r] = rec.pre.destroyed[r] + 1}

\* C20: when destroy_resource raises during get_resource's eviction or
\* during clear_pool, every resource the call removed from the idle list has
\* been passed to destroy_resource (none is returned, the call having
\* failed), and the kill and cleared counters have grown by the number of
\* resources passed to destroy_resource.
C20_DestroyFailureDropsNothing ==
    LET me == th[Caller] IN
    DestroyFailed
    => /\ Removed(me) = Passed(me)
       /\ KilledInCall(me)
            + (cnt["count_cleared"] - me.pre.cnt["count_cleared"])
          = Cardinality(Passed(me))
====
